---- MODULE Spec2Model ----
(***************************************************************************)
(* Model of photogone's daily image cache (src/app.py).                    *)
(*                                                                         *)
(* The module-level dictionary `cache` is shared by all request handlers.  *)
(* Every handler (main, image_page, image_file) first calls                *)
(* update_daily_data and then reads the cache.  The code takes no lock, so *)
(* a handler can be preempted between any two accesses of the shared       *)
(* dictionary.  One step of the model is one access of `cache` (a          *)
(* subscript read, a subscript write, or the rebinding of the global)      *)
(* together with the thread-local computation around it.                   *)
(*                                                                         *)
(* Dates are proleptic Gregorian ordinals (datetime.date.toordinal).       *)
(* A file name "pic<d>(cat<n>-pic<i>).<ext>" is the record                 *)
(* [day |-> d, cat |-> n, pic |-> i, ext |-> ext].                         *)
(***************************************************************************)
EXTENDS Integers, FiniteSets, Sequences, TLC

\* ------------------------------------------------------------------------
\* Bounds of the model
\* ------------------------------------------------------------------------
\* number of concurrent request handler threads
NumHandlers == 2

\* number of distinct values secrets.token_urlsafe can return
NumTokens == 4

\* ------------------------------------------------------------------------
\* Program constants
\* ------------------------------------------------------------------------
\* datetime.date(2024, 1, 1).toordinal()
StartDate == 738886

\* 1 <= day_of_cycle <= 730
CycleLength == 730

\* len(found_images) != 4
ExpectedImages == 4

\* cache['date'] = None; no date has ordinal 0
NoDate == 0

CATEGORIES == <<"category1", "category2">>

\* range(1, 3)
PicRange == 1..2

Categories == {CATEGORIES[n] : n \in 1..Len(CATEGORIES)}

\* cat_num = category[-1]
CatNum(category) ==
    CASE category = "category1" -> 1
      [] category = "category2" -> 2

\* key = f"cat{cat_num}_pic{i}", in the order the nested loops create them
KeyOrder == <<"cat1_pic1", "cat1_pic2", "cat2_pic1", "cat2_pic2">>

Keys == {KeyOrder[n] : n \in 1..Len(KeyOrder)}

KeyOf(category, i) == KeyOrder[2 * (CatNum(category) - 1) + i]

\* the category and the picture number of the loop iteration that makes key k
KeyCategory(k) == IF k \in {"cat1_pic1", "cat1_pic2"} THEN "category1" ELSE "category2"

KeyPic(k) == IF k \in {"cat1_pic1", "cat2_pic1"} THEN 1 ELSE 2

Handlers == 1..NumHandlers

Tokens == 1..NumTokens

\* key_to_url_map.get(key, '')
NoToken == 0

EmptyMap == << >>

\* ------------------------------------------------------------------------
\* The calendar days the model visits: both edges of the cycle
\* ------------------------------------------------------------------------
Dates == {StartDate - 1, StartDate, StartDate + CycleLength - 1, StartDate + CycleLength}

DayOfCycleFromZero(d) == d - StartDate

\* day_of_cycle = (today - start_date).days + 1
DayOfCycle(d) == (d - StartDate) + 1

InRangeWide(day) == 0 <= day /\ day <= CycleLength + 1

\* 1 <= day_of_cycle <= 730
InRange(day) == 1 <= day /\ day <= CycleLength

\* ------------------------------------------------------------------------
\* The photo library on disk
\* ------------------------------------------------------------------------
File(d, n, i, e) == [day |-> d, cat |-> n, pic |-> i, ext |-> e]

\* a name that matches no slot pattern ("some_other_file.jpg")
OtherFile == File(0, 0, 0, "jpg")

DayFiles(d) == {File(d, n, i, "jpg") : n \in 1..2, i \in PicRange}

\* one .jpg per slot for every day the model visits, in and out of the cycle,
\* and a second extension for one slot of day 1
Library == UNION {DayFiles(DayOfCycle(d)) : d \in Dates} \cup {File(1, 1, 2, "png")}

\* the files whose presence varies between directory states
Removable == {File(1, 2, 2, "jpg")}

DirOf(fs, category) == {f \in fs : f.cat = CatNum(category)}

\* the directory states: photos/<category>/ holds the files of its number
Directories == {[c \in Categories |-> DirOf(Library \ gone, c)] : gone \in SUBSET Removable}

\* the (category, filename) pairs requests ask for: a slot's file of each day
\* under its own category and under the other one, both extensions of the
\* slot that has two, and a name that is not in the library
FileRequests ==
    {[category |-> "category1", filename |-> f] :
        f \in {g \in Library : g.cat = 1 /\ g.pic = 2 /\ g.day <= CycleLength} \cup {OtherFile}}
    \cup {[category |-> "category2", filename |-> f] :
        f \in {g \in Library : g.cat = 1 /\ g.pic = 2 /\ g.ext = "jpg" /\ InRange(g.day)}}

\* glob(os.path.join(PHOTOS_DIR, category, f"pic{day}(cat{n}-pic{i}).*"))
Glob(dir, category, day, i) ==
    {f \in dir[category] : f.day = day /\ f.cat = CatNum(category) /\ f.pic = i}

Details(category, filename) == [category |-> category, filename |-> filename]

\* found_images[key] = value
Put(m, k, v) == [x \in (DOMAIN m) \cup {k} |-> IF x = k THEN v ELSE m[x]]

\* found_images after the nested loops have handled the first n slots: a slot
\* whose glob is empty adds nothing; glob returns its matches in arbitrary
\* order, so found_files[0] is any of them
RECURSIVE FoundAfter(_, _, _)
FoundAfter(dir, day, n) ==
    IF n = 0 THEN {EmptyMap}
    ELSE LET k == KeyOrder[n]
             found_files == Glob(dir, KeyCategory(k), day, KeyPic(k))
             before == FoundAfter(dir, day, n - 1)
         IN  IF found_files = {} THEN before
             ELSE {Put(m, k, Details(KeyCategory(k), f)) : m \in before, f \in found_files}

\* the values found_images can have after the loops
Resolutions(dir, day) == FoundAfter(dir, day, Len(KeyOrder))

\* len(found_images) != 4 is false
Complete(found) == Cardinality(DOMAIN found) = ExpectedImages

\* ------------------------------------------------------------------------
\* Cache values
\* ------------------------------------------------------------------------
\* cache = {'date': today, 'images': {}, 'url_map': {}}
EmptyCache(d) == [date |-> d, images |-> EmptyMap, url_map |-> EmptyMap]

MaxOf(S) == CHOOSE x \in S : \A y \in S : y <= x

\* the values secrets.token_urlsafe returns for the keys of one token loop.
\* The values are opaque: they are numbered in the order of their first
\* appearance in the loop, so that every pattern of equal and distinct draws
\* occurs, and a value can come back in a later loop
Mints ==
    {toks \in [Keys -> Tokens] :
        /\ toks[KeyOrder[1]] = 1
        /\ \A n \in 2..Len(KeyOrder) :
              \E m \in 1..(n - 1) : toks[KeyOrder[n]] <= toks[KeyOrder[m]] + 1}

NewUrlMapCarried(found, toks) ==
    [r \in Tokens |->
        IF r \in {toks[k] : k \in DOMAIN found}
        THEN KeyOrder[MaxOf({n \in 1..Len(KeyOrder) :
                               KeyOrder[n] \in DOMAIN found /\ toks[KeyOrder[n]] = r})]
        ELSE KeyOrder[1]]

\* for key in found_images.keys(): new_url_map[secrets.token_urlsafe(16)] = key
\* toks[k] is the value the generator returned for key k; a repeated value
\* overwrites the earlier entry
NewUrlMap(found, toks) ==
    [r \in {toks[k] : k \in DOMAIN found} |->
        KeyOrder[MaxOf({n \in 1..Len(KeyOrder) :
                          KeyOrder[n] \in DOMAIN found /\ toks[KeyOrder[n]] = r})]]

\* {v: k for k, v in cache['url_map'].items()}
KeyToUrlMap(url_map) ==
    [k \in {url_map[r] : r \in DOMAIN url_map} |->
        MaxOf({r \in DOMAIN url_map : url_map[r] = k})]

IsValidByName(images, category, filename) ==
    \E k \in DOMAIN images : images[k].filename = filename

\* the loop of image_file over cache['images'].values()
IsValid(images, category, filename) ==
    \E k \in DOMAIN images :
        images[k].category = category /\ images[k].filename = filename

\* cache['date'] == today
DateMatches(c, d) == c.date = d

HasNoImages(c) == c.images = EmptyMap

\* cache['images'] is truthy
HasImages(c) == c.images # EmptyMap

\* the outcome of a subscript or of dict.get: is the key there
HasKey(m, k) == k \in DOMAIN m

NotFoundWhenEmpty(url_map, r) == url_map = EmptyMap

\* random_url not in cache['url_map']
NotFound(url_map, r) == r \notin DOMAIN url_map

\* template_images, built by the loop over cache['images'].items()
TemplateImages(images, key_to_url_map) ==
    [k \in DOMAIN images |->
        [url |-> IF HasKey(key_to_url_map, k) THEN key_to_url_map[k] ELSE NoToken,
         src |-> images[k]]]

\* ------------------------------------------------------------------------
\* State
\* ------------------------------------------------------------------------
VARIABLES
    clock,          \* the date datetime.date.today() returns
    files,          \* the photo directories: category -> set of file names
    cache,          \* the global dictionary: date, images, url_map
    minted,         \* history: the `today` of the refresh that wrote url_map
    pc,             \* where each handler is
    today,          \* update_daily_data's local `today`
    found,          \* update_daily_data's local `found_images`
    random_url,     \* image_page's argument
    fileReq,        \* image_file's arguments (category, filename)
    key,            \* image_page's local `key`
    seenUrl,        \* history: `minted` when the handler read url_map
    body,           \* main's key_to_url_map, then what goes to the template
    resp            \* the outcome of the finished request

vars == <<clock, files, cache, minted, pc, today, found, random_url,
          fileReq, key, seenUrl, body, resp>>

Routes == {"main", "image_page", "image_file"}

\* inside update_daily_data
UpdatePcs == {"check_date", "check_images", "clear", "set_date", "set_images",
              "set_url_map"}

NoFile == Details("", OtherFile)

Init ==
    /\ clock = StartDate - 1
    /\ files \in Directories
    /\ cache = [date |-> NoDate, images |-> EmptyMap, url_map |-> EmptyMap]
    /\ minted = NoDate
    /\ pc = [t \in Handlers |-> "idle"]
    /\ today = [t \in Handlers |-> NoDate]
    /\ found = [t \in Handlers |-> EmptyMap]
    /\ random_url = [t \in Handlers |-> NoToken]
    /\ fileReq = [t \in Handlers |-> NoFile]
    /\ key = [t \in Handlers |-> ""]
    /\ seenUrl = [t \in Handlers |-> NoDate]
    /\ body = [t \in Handlers |-> EmptyMap]
    /\ resp = [t \in Handlers |-> "none"]

\* ------------------------------------------------------------------------
\* The clock
\* ------------------------------------------------------------------------
\* time passes; the clock never goes backwards
Tick ==
    /\ \E d \in Dates : d > clock /\ clock' = d
    /\ UNCHANGED <<files, cache, minted, pc, today, found, random_url,
                   fileReq, key, seenUrl, body, resp>>

\* ------------------------------------------------------------------------
\* update_daily_data
\* ------------------------------------------------------------------------
\* a request arrives and its view function calls update_daily_data, which
\* reads today = datetime.date.today()
Start(t) ==
    /\ pc[t] = "idle"
    /\ today' = [today EXCEPT ![t] = clock]
    /\ pc' = [pc EXCEPT ![t] = "check_date"]
    /\ UNCHANGED <<clock, files, cache, minted, found, random_url, fileReq,
                   key, seenUrl, body, resp>>

\* update_daily_data returns into the view function of the request, which is
\* one of main, image_page(random_url) and image_file(category, filename)
Return(t) ==
    \/ /\ pc' = [pc EXCEPT ![t] = "main_url_map"]
       /\ today' = [today EXCEPT ![t] = NoDate]
       /\ UNCHANGED <<random_url, fileReq>>
    \/ /\ pc' = [pc EXCEPT ![t] = "page_in"]
       /\ today' = [today EXCEPT ![t] = NoDate]
       /\ \E r \in Tokens : random_url' = [random_url EXCEPT ![t] = r]
       /\ UNCHANGED fileReq
    \/ /\ pc' = [pc EXCEPT ![t] = "file_check"]
       /\ UNCHANGED <<today, random_url, fileReq>>

\* the cache is stale: the day counter, the range test, the glob loops and the
\* length test, all local to the handler
Rescan(t) ==
    LET day == DayOfCycle(today[t]) IN
    IF ~InRange(day)
    THEN /\ found' = found
         /\ pc' = [pc EXCEPT ![t] = "clear"]
    ELSE \E g \in Resolutions(files, day) :
           /\ found' = [found EXCEPT ![t] = g]
           /\ pc' = [pc EXCEPT ![t] = IF Complete(g) THEN "set_date" ELSE "clear"]

\* if cache['date'] == today and ...
CheckDate(t) ==
    /\ pc[t] = "check_date"
    /\ IF DateMatches(cache, today[t])
       THEN /\ pc' = [pc EXCEPT ![t] = "check_images"]
            /\ found' = found
       ELSE Rescan(t)
    /\ UNCHANGED <<clock, files, cache, minted, today, random_url, fileReq,
                   key, seenUrl, body, resp>>

\* ... and cache['images']: return
CheckImages(t) ==
    /\ pc[t] = "check_images"
    /\ IF HasImages(cache)
       THEN /\ Return(t)
            /\ found' = found
       ELSE /\ Rescan(t)
            /\ UNCHANGED <<today, random_url, fileReq>>
    /\ UNCHANGED <<clock, files, cache, minted, key, seenUrl, body, resp>>

\* cache = {'date': today, 'images': {}, 'url_map': {}}; return
ClearCache(t) ==
    /\ pc[t] = "clear"
    /\ cache' = EmptyCache(today[t])
    /\ minted' = NoDate
    /\ found' = [found EXCEPT ![t] = EmptyMap]
    /\ Return(t)
    /\ UNCHANGED <<clock, files, key, seenUrl, body, resp>>

\* cache['date'] = today
SetDate(t) ==
    /\ pc[t] = "set_date"
    /\ cache' = [cache EXCEPT !.date = today[t]]
    /\ pc' = [pc EXCEPT ![t] = "set_images"]
    /\ UNCHANGED <<clock, files, minted, today, found, random_url,
                   fileReq, key, seenUrl, body, resp>>

\* cache['images'] = found_images
SetImages(t) ==
    /\ pc[t] = "set_images"
    /\ cache' = [cache EXCEPT !.images = found[t]]
    /\ pc' = [pc EXCEPT ![t] = "set_url_map"]
    /\ UNCHANGED <<clock, files, minted, today, found, random_url, fileReq,
                   key, seenUrl, body, resp>>

\* the token loop (local to the handler) and cache['url_map'] = new_url_map
SetUrlMap(t) ==
    /\ pc[t] = "set_url_map"
    /\ \E toks \in Mints :
         cache' = [cache EXCEPT !.url_map = NewUrlMap(found[t], toks)]
    /\ minted' = today[t]
    /\ found' = [found EXCEPT ![t] = EmptyMap]
    /\ Return(t)
    /\ UNCHANGED <<clock, files, key, seenUrl, body, resp>>

\* ------------------------------------------------------------------------
\* main
\* ------------------------------------------------------------------------
\* key_to_url_map = {v: k for k, v in cache['url_map'].items()}
MainUrlMap(t) ==
    /\ pc[t] = "main_url_map"
    /\ body' = [body EXCEPT ![t] = KeyToUrlMap(cache.url_map)]
    /\ seenUrl' = [seenUrl EXCEPT ![t] = minted]
    /\ pc' = [pc EXCEPT ![t] = "main_images"]
    /\ UNCHANGED <<clock, files, cache, minted, today, found, random_url,
                   fileReq, key, resp>>

\* the loop over cache['images'].items() and render_template
MainImages(t) ==
    /\ pc[t] = "main_images"
    /\ body' = [body EXCEPT ![t] = TemplateImages(cache.images, body[t])]
    /\ resp' = [resp EXCEPT ![t] = "200"]
    /\ seenUrl' = [seenUrl EXCEPT ![t] = NoDate]
    /\ pc' = [pc EXCEPT ![t] = "done"]
    /\ UNCHANGED <<clock, files, cache, minted, today, found, random_url,
                   fileReq, key>>

\* ------------------------------------------------------------------------
\* image_page
\* ------------------------------------------------------------------------
\* if random_url not in cache['url_map']: abort(404)
PageIn(t) ==
    /\ pc[t] = "page_in"
    /\ IF NotFound(cache.url_map, random_url[t])
       THEN /\ pc' = [pc EXCEPT ![t] = "done"]
            /\ resp' = [resp EXCEPT ![t] = "404"]
            /\ random_url' = [random_url EXCEPT ![t] = NoToken]
       ELSE /\ pc' = [pc EXCEPT ![t] = "page_key"]
            /\ UNCHANGED <<resp, random_url>>
    /\ UNCHANGED <<clock, files, cache, minted, today, found, fileReq, key,
                   seenUrl, body>>

\* key = cache['url_map'][random_url]
PageKey(t) ==
    /\ pc[t] = "page_key"
    /\ IF HasKey(cache.url_map, random_url[t])
       THEN /\ key' = [key EXCEPT ![t] = cache.url_map[random_url[t]]]
            /\ seenUrl' = [seenUrl EXCEPT ![t] = minted]
            /\ pc' = [pc EXCEPT ![t] = "page_details"]
            /\ UNCHANGED <<resp, random_url>>
       ELSE /\ resp' = [resp EXCEPT ![t] = "KeyError"]
            /\ pc' = [pc EXCEPT ![t] = "done"]
            /\ random_url' = [random_url EXCEPT ![t] = NoToken]
            /\ UNCHANGED <<key, seenUrl>>
    /\ UNCHANGED <<clock, files, cache, minted, today, found, fileReq, body>>

\* image_details = cache['images'][key]; image_src = url_for('image_file', ...)
PageDetails(t) ==
    /\ pc[t] = "page_details"
    /\ IF HasKey(cache.images, key[t])
       THEN /\ body' = [body EXCEPT ![t] = cache.images[key[t]]]
            /\ resp' = [resp EXCEPT ![t] = "200"]
       ELSE /\ resp' = [resp EXCEPT ![t] = "KeyError"]
            /\ body' = body
    /\ key' = [key EXCEPT ![t] = ""]
    /\ seenUrl' = [seenUrl EXCEPT ![t] = NoDate]
    /\ random_url' = [random_url EXCEPT ![t] = NoToken]
    /\ pc' = [pc EXCEPT ![t] = "done"]
    /\ UNCHANGED <<clock, files, cache, minted, today, found, fileReq>>

\* ------------------------------------------------------------------------
\* image_file
\* ------------------------------------------------------------------------
\* the validity loop over cache['images'].values(), then abort(403) or the file
\* (category and filename are not looked at before this loop: they are drawn
\* here and stay readable until the response is sent)
FileCheck(t) ==
    /\ pc[t] = "file_check"
    /\ \E q \in FileRequests :
         /\ fileReq' = [fileReq EXCEPT ![t] = q]
         /\ resp' = [resp EXCEPT ![t] =
                       IF IsValid(cache.images, q.category, q.filename)
                       THEN "200" ELSE "403"]
    /\ today' = [today EXCEPT ![t] = NoDate]
    /\ pc' = [pc EXCEPT ![t] = "done"]
    /\ UNCHANGED <<clock, files, cache, minted, found, random_url, key,
                   seenUrl, body>>

\* ------------------------------------------------------------------------
\* the response is sent; the handler thread takes the next request
\* ------------------------------------------------------------------------
Finish(t) ==
    /\ pc[t] = "done"
    /\ pc' = [pc EXCEPT ![t] = "idle"]
    /\ body' = [body EXCEPT ![t] = EmptyMap]
    /\ resp' = [resp EXCEPT ![t] = "none"]
    /\ fileReq' = [fileReq EXCEPT ![t] = NoFile]
    /\ UNCHANGED <<clock, files, cache, minted, today, found, random_url,
                   key, seenUrl>>

\* ------------------------------------------------------------------------
\* Specifications
\* ------------------------------------------------------------------------
Step(t) ==
    \/ CheckDate(t) \/ CheckImages(t) \/ ClearCache(t)
    \/ SetDate(t) \/ SetImages(t) \/ SetUrlMap(t)
    \/ MainUrlMap(t) \/ MainImages(t)
    \/ PageIn(t) \/ PageKey(t) \/ PageDetails(t)
    \/ FileCheck(t)
    \/ Finish(t)

\* the threaded server: handlers interleave freely
Next ==
    \/ Tick
    \/ \E t \in Handlers : Start(t)
    \/ \E t \in Handlers : Step(t)

Spec == Init /\ [][Next]_vars

\* a request is accepted only when no other request is being handled
StartSerial(t) ==
    /\ \A u \in Handlers : pc[u] = "idle"
    /\ Start(t)

\* one request at a time: the behaviour of the operations themselves
SeqNext ==
    \/ Tick
    \/ \E t \in Handlers : StartSerial(t)
    \/ \E t \in Handlers : Step(t)

SeqSpec == Init /\ [][SeqNext]_vars

\* ------------------------------------------------------------------------
\* Every day of the cycle, one after the other
\* ------------------------------------------------------------------------
\* the directory of one evening: the photographs of the day whose number is
\* n, those of the day before and those of the day after
DayWindow(n) == DayFiles(n - 1) \cup DayFiles(n) \cup DayFiles(n + 1)

\* the library moves on by one day: every photograph is replaced by the one
\* of the same slot with the next number
NextDayFiles(dir) ==
    [c \in Categories |-> {File(f.day + 1, f.cat, f.pic, f.ext) : f \in dir[c]}]

DayInit ==
    /\ clock = StartDate - 1
    /\ files = [c \in Categories |-> DirOf(DayWindow(0), c)]
    /\ cache = [date |-> NoDate, images |-> EmptyMap, url_map |-> EmptyMap]
    /\ minted = NoDate
    /\ pc = [t \in Handlers |-> "idle"]
    /\ today = [t \in Handlers |-> NoDate]
    /\ found = [t \in Handlers |-> EmptyMap]
    /\ random_url = [t \in Handlers |-> NoToken]
    /\ fileReq = [t \in Handlers |-> NoFile]
    /\ key = [t \in Handlers |-> ""]
    /\ seenUrl = [t \in Handlers |-> NoDate]
    /\ body = [t \in Handlers |-> EmptyMap]
    /\ resp = [t \in Handlers |-> "none"]

\* midnight, between two requests: the next calendar day begins, once the day
\* that ends has received a request, and the library is brought up to date
DayTick ==
    /\ \A u \in Handlers : pc[u] = "idle"
    /\ cache.date = clock
    /\ clock < StartDate + CycleLength
    /\ clock' = clock + 1
    /\ files' = NextDayFiles(files)
    /\ UNCHANGED <<cache, minted, pc, today, found, random_url,
                   fileReq, key, seenUrl, body, resp>>

DayNext ==
    \/ DayTick
    \/ \E t \in Handlers : StartSerial(t)
    \/ \E t \in Handlers : Step(t)

\* requests handled one at a time on every day from the eve of the cycle to
\* the day after its last day
DaySpec == DayInit /\ [][DayNext]_vars

\* ------------------------------------------------------------------------
\* Properties
\* ------------------------------------------------------------------------
\* handler t returns from update_daily_data in this step
Returns(t) == pc[t] \in UpdatePcs /\ pc'[t] \notin UpdatePcs

\* date d lies outside [cycleStart, cycleStart + cycleLength)
OutsideCycle(d) == d < StartDate \/ d >= StartDate + CycleLength

\* every slot of the day has at least one matching file on disk
AllSlotsOnDisk(day) ==
    \A c \in Categories, i \in PicRange :
        \E f \in files[c] : f.day = day /\ f.cat = CatNum(c) /\ f.pic = i

\* the day the entries of a non-empty images mapping were resolved for
ImagesDays(images) == {images[k].filename.day : k \in DOMAIN images}

\* C1: every read observes a complete cache generation: image_page never
\* answers with a file of one refresh through a url_map entry of another, and
\* main never lists images of one refresh against the url_map of another
C1_ReadsOneGeneration ==
    [][\A t \in Handlers :
         /\ (pc[t] = "page_details" /\ pc'[t] = "done" /\ resp'[t] = "200")
                => body'[t].filename.day = DayOfCycle(seenUrl[t])
         /\ (pc[t] = "main_images" /\ pc'[t] = "done")
                => IF cache.images = EmptyMap
                   THEN body[t] = EmptyMap
                   ELSE /\ body[t] # EmptyMap
                        /\ ImagesDays(cache.images) = {DayOfCycle(seenUrl[t])}]_vars

\* C2: the staleness check and the recompute-and-swap are serialized: no two
\* handlers are at the same time past the check, with the files of the same
\* day scanned and its tokens about to be minted
C2_OneRecomputationPerDay ==
    \A t, u \in Handlers :
        (t # u /\ pc[t] \in {"set_date", "set_images", "set_url_map"}
               /\ pc[u] \in {"set_date", "set_images", "set_url_map"})
            => today[t] # today[u]

\* C3: image_file accepts (category, filename) if and only if some entry of
\* the current images mapping is exactly that pair, and answers 403 otherwise
C3_ValidateFile ==
    [][\A t \in Handlers :
         (pc[t] = "file_check" /\ pc'[t] = "done")
            => /\ resp'[t] \in {"200", "403"}
               /\ resp'[t] = "200"
                    <=> \E k \in DOMAIN cache.images : cache.images[k] = fileReq'[t]]_vars

\* a request was refused although the file is on disk under that category
\* while other files are being served
C3_Witness ==
    \E t \in Handlers :
        /\ pc[t] = "done"
        /\ resp[t] = "403"
        /\ fileReq[t].category \in Categories
        /\ fileReq[t].filename \in files[fileReq[t].category]
        /\ cache.images # EmptyMap

\* C4: a request handled on day D2 is never validated against the images of
\* an earlier day D1: a file that image_file accepts is no file of a day
\* before the day of the request
C4_NoStaleFile ==
    [][\A t \in Handlers :
         (pc[t] = "file_check" /\ pc'[t] = "done" /\ resp'[t] = "200")
            => fileReq'[t].filename.day >= DayOfCycle(today[t])]_vars

\* C5: when update_daily_data returns from a recomputation the cache holds all
\* 4 slots and 4 tokens if the day is in the cycle and every slot has a file,
\* and is empty otherwise; images never holds 1 to 3 entries
C5_AllOrNothing ==
    [][/\ Cardinality(DOMAIN cache'.images) \in {0, ExpectedImages}
       /\ \A t \in Handlers :
            (Returns(t) /\ pc[t] \in {"clear", "set_url_map"})
               => IF ~OutsideCycle(today[t]) /\ AllSlotsOnDisk(DayOfCycle(today[t]))
                  THEN /\ Cardinality(DOMAIN cache'.images) = ExpectedImages
                       /\ Cardinality(DOMAIN cache'.url_map) = ExpectedImages
                  ELSE /\ cache'.images = EmptyMap
                       /\ cache'.url_map = EmptyMap]_vars

\* C6: on a date outside the cycle update_daily_data leaves the cache as
\* {date: today, images: {}, url_map: {}}, and the lookup that follows answers
\* not-found whatever the token
C6_OutOfRangeEmpty ==
    [][\A t \in Handlers :
         /\ (Returns(t) /\ OutsideCycle(today[t]))
                => cache' = [date |-> today[t], images |-> << >>, url_map |-> << >>]
         /\ (pc[t] = "page_in" /\ pc'[t] # "page_in" /\ cache.date # NoDate
                /\ OutsideCycle(cache.date))
                => (pc'[t] = "done" /\ resp'[t] = "404")]_vars

\* a lookup was answered not-found on the day after the last day of the cycle,
\* whose files are on disk
C6_Witness ==
    \E t \in Handlers :
        /\ pc[t] = "done"
        /\ resp[t] = "404"
        /\ cache = [date |-> StartDate + CycleLength, images |-> << >>, url_map |-> << >>]
        /\ AllSlotsOnDisk(CycleLength + 1)

\* C7: a second update_daily_data for the date the cache already holds leaves
\* date, images and url_map as they are and mints nothing
C7_Idempotent ==
    [][\A t \in Handlers :
         (pc[t] \in {"check_date", "check_images", "clear"} /\ cache.date = today[t])
            => (cache' = cache /\ pc'[t] \notin {"set_date", "set_images", "set_url_map"})]_vars

\* a second call on an empty-day cache of a day inside the cycle is about to
\* write the cache again
C7_Witness ==
    \E t \in Handlers :
        /\ pc[t] = "clear"
        /\ cache = [date |-> today[t], images |-> << >>, url_map |-> << >>]
        /\ ~OutsideCycle(today[t])

\* C8: after a refresh that found all images, url_map and images have the
\* same size and every images key has exactly one token
C8_Bijection ==
    [][\A t \in Handlers :
         (Returns(t) /\ pc[t] = "set_url_map")
            => /\ Cardinality(DOMAIN cache'.url_map) = Cardinality(DOMAIN cache'.images)
               /\ \A k \in DOMAIN cache'.images :
                    Cardinality({r \in DOMAIN cache'.url_map : cache'.url_map[r] = k}) = 1
               /\ \A r \in DOMAIN cache'.url_map : cache'.url_map[r] \in DOMAIN cache'.images]_vars

\* C9: image_page answers not-found exactly for the tokens that are no key of
\* url_map, and otherwise with the file images holds for the slot url_map
\* binds the token to
C9_LookupByToken ==
    [][\A t \in Handlers :
         /\ (pc[t] = "page_in" /\ pc'[t] # "page_in")
                => IF random_url[t] \in DOMAIN cache.url_map
                   THEN pc'[t] = "page_key"
                   ELSE pc'[t] = "done" /\ resp'[t] = "404"
         /\ (pc[t] = "page_key" /\ pc'[t] # "page_key")
                => (pc'[t] = "page_details" /\ key'[t] = cache.url_map[random_url[t]])
         /\ (pc[t] = "page_details" /\ pc'[t] # "page_details")
                => /\ resp'[t] = "200"
                   /\ random_url[t] \in DOMAIN cache.url_map
                   /\ cache.url_map[random_url[t]] = key[t]
                   /\ body'[t] = cache.images[key[t]]]_vars

\* a page was served for a token of a populated cache
C9_Witness ==
    \E t \in Handlers :
        /\ pc[t] = "done"
        /\ resp[t] = "200"
        /\ \E k \in DOMAIN cache.images : body[t] = cache.images[k]

\* C10: no operation ends in an unhandled exception
C10_NeverRaises == \A t \in Handlers : resp[t] # "KeyError"

\* C11: the recomputation runs once per calendar day: a request that finds
\* its own date in the cache, written by an earlier request of that day, goes
\* on to its view function without scanning and without replacing the cache,
\* also when the cached result of the day is the empty-day state
C11_OncePerDay ==
    [][\A t \in Handlers :
         (pc[t] \in {"check_date", "check_images"} /\ cache.date = today[t])
            => pc'[t] \notin {"clear", "set_date"}]_vars

\* handler t computes the day index, tests it and scans in this step
Rescans(t) ==
    pc[t] \in {"check_date", "check_images"} /\ pc'[t] \in {"clear", "set_date"}

\* C12: the day index is 1 on the first day of the cycle and 730 on its last
\* day, grows by exactly one from each day to the next and stays within
\* 1..730; the dates of the cycle, and no others, are treated as in range
\* (the files of every day are on disk, next to those of the days around it,
\* so a day in range is a day whose files are found)
C12_DayIndex ==
    [][\A t \in Handlers :
         Rescans(t) =>
            /\ pc'[t] = "set_date" <=> ~OutsideCycle(today[t])
            /\ pc'[t] = "set_date" =>
                 /\ Cardinality(ImagesDays(found'[t])) = 1
                 /\ ImagesDays(found'[t]) \subseteq 1..CycleLength
                 /\ today[t] = StartDate => ImagesDays(found'[t]) = {1}
                 /\ today[t] = StartDate + CycleLength - 1
                        => ImagesDays(found'[t]) = {CycleLength}
                 /\ (cache.images # EmptyMap /\ cache.date + 1 = today[t])
                        => \A x \in ImagesDays(found'[t]), y \in ImagesDays(cache.images) :
                              x = y + 1
                 /\ (cache.images # EmptyMap /\ cache.date < today[t])
                        => \A x \in ImagesDays(found'[t]), y \in ImagesDays(cache.images) :
                              x > y]_vars

\* the files of the last day of the cycle were found, one day index after
\* those of the day before, which are still in the cache
C12_Witness ==
    \E t \in Handlers :
        /\ pc[t] = "set_date"
        /\ today[t] = StartDate + CycleLength - 1
        /\ ImagesDays(found[t]) = {CycleLength}
        /\ ImagesDays(cache.images) = {CycleLength - 1}

\* C13: the scan is deterministic for a fixed directory state: whatever order
\* glob lists the matches of a slot in, the scan resolves the slot to the same
\* file name, so every outcome the scan can have over the directory it reads
\* is the outcome it has
C13_DeterministicPick ==
    [][\A t \in Handlers :
         (Rescans(t) /\ ~OutsideCycle(today[t]))
            => \A g \in Resolutions(files, DayOfCycle(today[t])) :
                 \A k \in DOMAIN g :
                    /\ k \in DOMAIN found'[t]
                    /\ found'[t][k].filename = g[k].filename]_vars

\* C15: in the listing main builds, every slot of images has a token, and
\* looking that token up in url_map gives the same slot, whose entry in
\* images is the (category, filename) the listing shows for it
C15_ListingRoundTrip ==
    [][\A t \in Handlers :
         (pc[t] = "main_images" /\ pc'[t] = "done")
            => /\ DOMAIN body'[t] = DOMAIN cache.images
               /\ \A k \in DOMAIN body'[t] :
                    /\ body'[t][k].url # NoToken
                    /\ body'[t][k].url \in DOMAIN cache.url_map
                    /\ cache.url_map[body'[t][k].url] = k
                    /\ cache.images[k] = body'[t][k].src]_vars

\* C16: a recomputation supersedes the tokens before it: when it returns,
\* url_map holds exactly the tokens its own loop minted, each bound to a slot
\* it was minted for (or nothing at all on an empty day), and image_page
\* answers not-found for every token that is not in that url_map
C16_Superseded ==
    [][\A t \in Handlers :
         /\ (Returns(t) /\ pc[t] = "clear") => cache'.url_map = << >>
         /\ (Returns(t) /\ pc[t] = "set_url_map")
                => \E drawn \in [Keys -> Tokens] :
                      /\ DOMAIN cache'.url_map = {drawn[k] : k \in DOMAIN found[t]}
                      /\ \A r \in DOMAIN cache'.url_map : drawn[cache'.url_map[r]] = r
         /\ (pc[t] = "page_in" /\ pc'[t] # "page_in"
                /\ random_url[t] \notin DOMAIN cache.url_map)
                => (pc'[t] = "done" /\ resp'[t] = "404")]_vars

\* a lookup was answered not-found on the last day of the cycle although the
\* cache is populated: the recomputation of that day minted fewer distinct
\* tokens than there are token values
C16_Witness ==
    \E t \in Handlers :
        /\ pc[t] = "done"
        /\ resp[t] = "404"
        /\ cache.date = StartDate + CycleLength - 1
        /\ cache.images # EmptyMap
        /\ cache.url_map # EmptyMap
        /\ Cardinality(DOMAIN cache.url_map) < ExpectedImages

\* C17: in every state of the shared cache, between the field writes of a
\* refresh as well, url_map is empty when images is empty and every slot key
\* url_map binds a token to is a key of images
C17_UrlMapWithinImages ==
    /\ cache.images = << >> => cache.url_map = << >>
    /\ \A r \in DOMAIN cache.url_map : cache.url_map[r] \in DOMAIN cache.images

\* C18: the cached date never goes backwards, and whenever images is not
\* empty its entries are the files of the day index of the cached date
C18_DateAndImagesAdvance ==
    [][/\ cache'.date >= cache.date
       /\ cache'.images # << >>
            => \A k \in DOMAIN cache'.images :
                  cache'.images[k].filename.day = cache'.date - StartDate + 1]_vars

====
